---- MODULE Spec2Model ----
(***************************************************************************)
(* Trade journal (TradeViewer component): the CSV normalizer parseCSV,     *)
(* the in-memory trade store (tradeList, selectedTrade, tradeImages) and   *)
(* the asynchronous image-upload, image-preload and PDF-export flows.      *)
(*                                                                         *)
(* JavaScript strings are modelled as sequences of one-character strings,  *)
(* numbers as exact decimals m * 10^-e (or NaN), Date objects as a number  *)
(* of milliseconds since the epoch (or Invalid Date).                      *)
(***************************************************************************)
EXTENDS Integers, Sequences, FiniteSets, TLC

(***************************************************************************)
(* Strings                                                                 *)
(***************************************************************************)
Upper == <<"A","B","C","D","E","F","G","H","I","J","K","L","M",
           "N","O","P","Q","R","S","T","U","V","W","X","Y","Z">>

Lower == <<"a","b","c","d","e","f","g","h","i","j","k","l","m",
           "n","o","p","q","r","s","t","u","v","w","x","y","z">>

Digits == <<"0","1","2","3","4","5","6","7","8","9">>

Whitespace == {" ", "\t", "\n", "\r"}

IsDigit(c) == \E i \in 1..10 : Digits[i] = c

DigitVal(c) == (CHOOSE i \in 1..10 : Digits[i] = c) - 1

ToLowerChar(c) ==
  IF \E i \in 1..26 : Upper[i] = c
  THEN Lower[CHOOSE i \in 1..26 : Upper[i] = c]
  ELSE c

ToUpperChar(c) ==
  IF \E i \in 1..26 : Lower[i] = c
  THEN Upper[CHOOSE i \in 1..26 : Lower[i] = c]
  ELSE c

RECURSIVE toLowerCase(_)
toLowerCase(s) ==
  IF s = <<>> THEN <<>> ELSE <<ToLowerChar(Head(s))>> \o toLowerCase(Tail(s))

RECURSIVE toUpperCase(_)
toUpperCase(s) ==
  IF s = <<>> THEN <<>> ELSE <<ToUpperChar(Head(s))>> \o toUpperCase(Tail(s))

includes(s, sub) ==
  \E i \in 0..(Len(s) - Len(sub)) : SubSeq(s, i + 1, i + Len(sub)) = sub

startsWith(s, p) == Len(p) <= Len(s) /\ SubSeq(s, 1, Len(p)) = p

endsWith(s, p) == Len(p) <= Len(s) /\ SubSeq(s, Len(s) - Len(p) + 1, Len(s)) = p

\* s.substring(from, to) with 0-based from (inclusive) and to (exclusive);
\* the arguments are swapped when from > to, as String.prototype.substring does
substring(s, from, to) ==
  LET lo == IF from <= to THEN from ELSE to
      hi == IF from <= to THEN to ELSE from
  IN SubSeq(s, lo + 1, hi)

MinOf(S) == CHOOSE x \in S : \A y \in S : x <= y

MaxOf(S) == CHOOSE x \in S : \A y \in S : x >= y

RECURSIVE trimStart(_)
trimStart(s) ==
  IF s # <<>> /\ Head(s) \in Whitespace THEN trimStart(Tail(s)) ELSE s

RECURSIVE trimEnd(_)
trimEnd(s) ==
  IF s # <<>> /\ s[Len(s)] \in Whitespace
  THEN trimEnd(SubSeq(s, 1, Len(s) - 1)) ELSE s

trim(s) == trimEnd(trimStart(s))

\* s.replace(/[...]/g, ''): every character of the class is removed
RECURSIVE removeChars(_, _)
removeChars(s, class) ==
  IF s = <<>> THEN <<>>
  ELSE IF Head(s) \in class THEN removeChars(Tail(s), class)
       ELSE <<Head(s)>> \o removeChars(Tail(s), class)

\* s.split(sep) for a separator that is one character of the set seps
RECURSIVE split(_, _)
split(s, seps) ==
  LET P == {i \in 1..Len(s) : s[i] \in seps}
  IN IF P = {} THEN <<s>>
     ELSE LET p == MinOf(P)
          IN <<SubSeq(s, 1, p - 1)>> \o split(SubSeq(s, p + 1, Len(s)), seps)

\* parts.map(p => p.trim())
RECURSIVE trimAll(_)
trimAll(parts) ==
  IF parts = <<>> THEN <<>> ELSE <<trim(Head(parts))>> \o trimAll(Tail(parts))

RECURSIVE join(_, _)
join(parts, sep) ==
  IF parts = <<>> THEN <<>>
  ELSE IF Len(parts) = 1 THEN parts[1]
       ELSE parts[1] \o sep \o join(Tail(parts), sep)

(***************************************************************************)
(* Numbers: exact decimals m * 10^-e in lowest terms of e, or NaN          *)
(***************************************************************************)
NaN == [nan |-> TRUE, m |-> 0, e |-> 0]

RECURSIVE Num(_, _)
Num(m, e) ==
  IF e > 0 /\ m % 10 = 0 THEN Num(m \div 10, e - 1)
  ELSE [nan |-> FALSE, m |-> m, e |-> e]

RECURSIVE Pow10(_)
Pow10(n) == IF n = 0 THEN 1 ELSE 10 * Pow10(n - 1)

isNaN(a) == a.nan

Scaled(a, e) == a.m * Pow10(e - a.e)

MaxE(a, b) == IF a.e >= b.e THEN a.e ELSE b.e

NumNeg(a) == IF a.nan THEN NaN ELSE Num(0 - a.m, a.e)

NumAbs(a) == IF a.nan THEN NaN ELSE Num(IF a.m < 0 THEN 0 - a.m ELSE a.m, a.e)

NumSub(a, b) ==
  IF a.nan \/ b.nan THEN NaN
  ELSE Num(Scaled(a, MaxE(a, b)) - Scaled(b, MaxE(a, b)), MaxE(a, b))

NumMul(a, b) == IF a.nan \/ b.nan THEN NaN ELSE Num(a.m * b.m, a.e + b.e)

\* a > b, a <= b, a < b: every comparison with NaN is false
NumGt(a, b) ==
  ~a.nan /\ ~b.nan /\ Scaled(a, MaxE(a, b)) > Scaled(b, MaxE(a, b))

NumLe(a, b) ==
  ~a.nan /\ ~b.nan /\ Scaled(a, MaxE(a, b)) <= Scaled(b, MaxE(a, b))

RECURSIVE DigitsVal(_)
DigitsVal(ds) ==
  IF ds = <<>> THEN 0
  ELSE DigitsVal(SubSeq(ds, 1, Len(ds) - 1)) * 10 + DigitVal(ds[Len(ds)])

\* the length of the longest run of decimal digits of s that starts at index i
RECURSIVE DigitRun(_, _)
DigitRun(s, i) ==
  IF i <= Len(s) /\ IsDigit(s[i]) THEN 1 + DigitRun(s, i + 1) ELSE 0

\* parseFloat: leading white space skipped, an optional sign, then the
\* longest prefix digits[.digits] with at least one digit; NaN when there is
\* none.  (Exponents and "Infinity" are not modelled: no input text of the
\* model has a digit followed by e/E or starts with Infinity.)
parseFloat(str) ==
  LET s    == trimStart(str)
      neg  == Len(s) > 0 /\ s[1] = "-"
      i0   == IF Len(s) > 0 /\ s[1] \in {"-", "+"} THEN 2 ELSE 1
      ni   == DigitRun(s, i0)
      dot  == i0 + ni <= Len(s) /\ s[i0 + ni] = "."
      nf   == IF dot THEN DigitRun(s, i0 + ni + 1) ELSE 0
      ip   == DigitsVal(SubSeq(s, i0, i0 + ni - 1))
      fp   == DigitsVal(SubSeq(s, i0 + ni + 1, i0 + ni + nf))
      mag  == ip * Pow10(nf) + fp
  IN IF ni + nf = 0 THEN NaN
     ELSE Num(IF neg THEN 0 - mag ELSE mag, nf)

(***************************************************************************)
(* Dates: a Date is a time value in milliseconds since the epoch, or       *)
(* Invalid Date.  An ISO string (toISOString) is kept as its fields.       *)
(***************************************************************************)
MsPerSecond == 1000

MsPerMinute == 60 * MsPerSecond

MsPerHour == 3600000

MsPerDay == 24 * MsPerHour

InvalidDate == [valid |-> FALSE, t |-> 0]

DateOf(t) == [valid |-> TRUE, t |-> t]

IsLeap(y) == (y % 4 = 0 /\ y % 100 # 0) \/ y % 400 = 0

DaysInMonth(y, mo) ==
  IF mo = 2 THEN (IF IsLeap(y) THEN 29 ELSE 28)
  ELSE IF mo \in {4, 6, 9, 11} THEN 30 ELSE 31

\* days from 1970-01-01 to the civil date y-mo-d (proleptic Gregorian)
DaysFromCivil(y, mo, d) ==
  LET yy  == IF mo <= 2 THEN y - 1 ELSE y
      era == yy \div 400
      yoe == yy - era * 400
      mp  == IF mo > 2 THEN mo - 3 ELSE mo + 9
      doy == (153 * mp + 2) \div 5 + d - 1
      doe == yoe * 365 + yoe \div 4 - yoe \div 100 + doy
  IN era * 146097 + doe - 719468

\* the civil date of the day that is z days after 1970-01-01
CivilFromDays(z) ==
  LET zz  == z + 719468
      era == zz \div 146097
      doe == zz - era * 146097
      yoe == (doe - doe \div 1460 + doe \div 36524 - doe \div 146096) \div 365
      doy == doe - (365 * yoe + yoe \div 4 - yoe \div 100)
      mp  == (5 * doy + 2) \div 153
      d   == doy - (153 * mp + 2) \div 5 + 1
      mo  == IF mp < 10 THEN mp + 3 ELSE mp - 9
      y   == yoe + era * 400 + (IF mo <= 2 THEN 1 ELSE 0)
  IN [y |-> y, mo |-> mo, d |-> d]

\* new Date(text).  The date-only ISO form YYYY-MM-DD is a valid time value
\* (UTC midnight); every other text of the model's inputs (empty, or starting
\* with a letter or a sign that no date starts with) is Invalid Date.
DateParse(s) ==
  IF /\ Len(s) = 10
     /\ \A i \in {1, 2, 3, 4, 6, 7, 9, 10} : IsDigit(s[i])
     /\ s[5] = "-" /\ s[8] = "-"
  THEN LET y  == DigitsVal(SubSeq(s, 1, 4))
           mo == DigitsVal(SubSeq(s, 6, 7))
           d  == DigitsVal(SubSeq(s, 9, 10))
       IN IF mo \in 1..12 /\ d >= 1 /\ d <= DaysInMonth(y, mo)
          THEN DateOf(DaysFromCivil(y, mo, d) * MsPerDay)
          ELSE InvalidDate
  ELSE InvalidDate

\* date.toISOString(): the fields of "YYYY-MM-DDTHH:mm:ss.sssZ"
toISOString(date) ==
  LET c   == CivilFromDays(date.t \div MsPerDay)
      rem == date.t % MsPerDay
  IN [y |-> c.y, mo |-> c.mo, d |-> c.d,
      h  |-> rem \div MsPerHour,
      mi |-> (rem % MsPerHour) \div MsPerMinute,
      s  |-> (rem % MsPerMinute) \div MsPerSecond,
      ms |-> rem % MsPerSecond]

\* new Date(isoString).getTime() for a string that toISOString produced
DateFromISO(iso) ==
  DaysFromCivil(iso.y, iso.mo, iso.d) * MsPerDay
    + iso.h * MsPerHour + iso.mi * MsPerMinute + iso.s * MsPerSecond + iso.ms

\* String(n) of an integer n
RECURSIVE NatToStr(_)
NatToStr(n) ==
  IF n < 10 THEN <<Digits[n + 1]>>
  ELSE NatToStr(n \div 10) \o <<Digits[(n % 10) + 1]>>

IntToStr(n) == IF n < 0 THEN <<"-">> \o NatToStr(0 - n) ELSE NatToStr(n)

(***************************************************************************)
(* The CSV normalizer: the body of reader.onload in parseCSV               *)
(***************************************************************************)
XAUUSD_MULTIPLIER == 100

Delimiters == {",", "\t"}

requiredColumns ==
  << <<"s","y","m","b","o","l">>,
     <<"b","u","y","p","r","i","c","e">>,
     <<"s","e","l","l","p","r","i","c","e">>,
     <<"q","t","y">>,
     <<"b","o","u","g","h","t","t","i","m","e","s","t","a","m","p">>,
     <<"s","o","l","d","t","i","m","e","s","t","a","m","p">>,
     <<"p","n","l">> >>

durationColumn == <<"d","u","r","a","t","i","o","n">>

\* ev.target.result.trim().split("\n")
linesOf(text) == split(trim(text), {"\n"})

\* lines[0].split(/,|\t/).map(h => h.trim())
headersOf(line) == trimAll(split(line, Delimiters))

\* a canonical array index ("0", "7", "12"): such property names are
\* enumerated first, in ascending numeric order, by Object.keys
IsArrayIndex(key) ==
  /\ Len(key) >= 1 /\ Len(key) <= 9
  /\ \A i \in 1..Len(key) : IsDigit(key[i])
  /\ (Len(key) = 1 \/ key[1] # "0")

\* headers.map(header => header.toLowerCase())
RECURSIVE lowerAll(_)
lowerAll(headers) ==
  IF headers = <<>> THEN <<>>
  ELSE <<toLowerCase(Head(headers))>> \o lowerAll(Tail(headers))

\* the n-th (from 1) element of the set S of positions, ordered by rank
RECURSIVE ByRank(_, _, _, _)
ByRank(keys, S, rank, n) ==
  IF n > Cardinality(S) THEN <<>>
  ELSE <<keys[CHOOSE i \in S : rank[i] = n - 1]>> \o ByRank(keys, S, rank, n + 1)

\* columnMap after headers.forEach((header, index) =>
\* columnMap[header.toLowerCase()] = index), as Object.keys(columnMap): one key
\* per distinct lower-cased header, array-index keys first (ascending), then
\* the others in the order of their first insertion
columnMap(headers) ==
  LET keys    == lowerAll(headers)
      first   == {i \in 1..Len(keys) : \A j \in 1..(i - 1) : keys[j] # keys[i]}
      ints    == {i \in first : IsArrayIndex(keys[i])}
      strs    == first \ ints
      rank    == [i \in first |->
                   IF i \in ints
                   THEN Cardinality({j \in ints : DigitsVal(keys[j]) < DigitsVal(keys[i])})
                   ELSE Cardinality(ints) + Cardinality({j \in strs : j < i})]
  IN ByRank(keys, first, rank, 1)

\* missingColumns with the duration column among the required ones
missingColumnsWithDuration(keys) ==
  SelectSeq(requiredColumns \o <<durationColumn>>,
            LAMBDA col : ~\E k \in 1..Len(keys) : includes(keys[k], toLowerCase(col)))

\* requiredColumns.filter(col => !Object.keys(columnMap).some(key =>
\*   key.includes(col.toLowerCase())))
missingColumns(keys) ==
  SelectSeq(requiredColumns,
            LAMBDA col : ~\E k \in 1..Len(keys) : includes(keys[k], toLowerCase(col)))

\* Object.keys(columnMap).findIndex(key => key.includes(baseName.toLowerCase()))
\* (0-based; -1 when no key matches)
getColumnIndex(keys, baseName) ==
  LET hits == {k \in 1..Len(keys) : includes(keys[k], toLowerCase(baseName))}
  IN IF hits = {} THEN 0 - 1 ELSE MinOf(hits) - 1

columnIndices(keys) ==
  [symbolCol    |-> getColumnIndex(keys, requiredColumns[1]),
   buyPriceCol  |-> getColumnIndex(keys, requiredColumns[2]),
   sellPriceCol |-> getColumnIndex(keys, requiredColumns[3]),
   qtyCol       |-> getColumnIndex(keys, requiredColumns[4]),
   buyTimeCol   |-> getColumnIndex(keys, requiredColumns[5]),
   sellTimeCol  |-> getColumnIndex(keys, requiredColumns[6]),
   pnlCol       |-> getColumnIndex(keys, requiredColumns[7]),
   durationCol  |-> getColumnIndex(keys, durationColumn)]

\* Math.max(symbolCol, buyPriceCol, sellPriceCol, qtyCol, buyTimeCol,
\*          sellTimeCol, pnlCol) + 1
minFieldCount(cols) ==
  MaxOf({cols.symbolCol, cols.buyPriceCol, cols.sellPriceCol, cols.qtyCol,
         cols.buyTimeCol, cols.sellTimeCol, cols.pnlCol}) + 1

\* lines[i].split(/,|\t/).map(f => f.trim())
fieldsOf(line) == trimAll(split(line, Delimiters))

\* parseTimestamps without the hour added to the substituted exit
parseTimestampsSameExit(buyText, sellText, clock) ==
  IF ~DateParse(buyText).valid \/ ~DateParse(sellText).valid
  THEN [buyTimestamp |-> DateOf(clock), sellTimestamp |-> DateOf(clock)]
  ELSE [buyTimestamp |-> DateParse(buyText), sellTimestamp |-> DateParse(sellText)]

\* The timestamps of a row.  clock is the value of new Date() when the row is
\* parsed.
parseTimestamps(buyText, sellText, clock) ==
  LET buy  == DateParse(buyText)
      sell == DateParse(sellText)
  IN IF ~buy.valid \/ ~sell.valid
     THEN [buyTimestamp  |-> DateOf(clock),
           sellTimestamp |-> DateOf(clock + MsPerHour)]
     ELSE [buyTimestamp |-> buy, sellTimestamp |-> sell]

\* pnlFromPrices without the direction factor
pnlFromPricesNoDirection(buyPrice, sellPrice, quantity) ==
  NumMul(NumMul(NumSub(sellPrice, buyPrice), quantity), Num(XAUUSD_MULTIPLIER, 0))

\* const direction = buyPrice > sellPrice ? -1 : 1
direction(buyPrice, sellPrice) ==
  IF NumGt(buyPrice, sellPrice) THEN Num(0 - 1, 0) ELSE Num(1, 0)

\* direction * (sellPrice - buyPrice) * quantity * XAUUSD_MULTIPLIER
pnlFromPrices(buyPrice, sellPrice, quantity) ==
  NumMul(NumMul(NumMul(direction(buyPrice, sellPrice), NumSub(sellPrice, buyPrice)),
                quantity),
         Num(XAUUSD_MULTIPLIER, 0))

\* the classes of /[$£€]/g and /[$£€,]/g
CurrencySymbols == {"$", "£", "€"}

CurrencyAndComma == CurrencySymbols \cup {","}

\* the four syntactic cases of the P/L field (pnlString is fields[pnlCol].trim())
pnlSyntactic(pnlString) ==
  IF startsWith(pnlString, <<"$", "(">>) /\ endsWith(pnlString, <<")">>)
  THEN LET numericPart == substring(pnlString, 2, Len(pnlString) - 1)
       IN [pnl |-> NumNeg(parseFloat(numericPart)),
           originalPnlString |-> <<"-", "$">> \o numericPart,
           shouldDisplayAsNegative |-> TRUE]
  ELSE IF startsWith(pnlString, <<"(">>) /\ endsWith(pnlString, <<")">>)
  THEN LET valueWithoutParens == substring(pnlString, 1, Len(pnlString) - 1)
           cleanPnlString == trim(removeChars(valueWithoutParens, CurrencyAndComma))
       IN [pnl |-> NumNeg(NumAbs(parseFloat(cleanPnlString))),
           originalPnlString |-> <<"-", "$">> \o removeChars(valueWithoutParens, CurrencySymbols),
           shouldDisplayAsNegative |-> TRUE]
  ELSE IF startsWith(pnlString, <<"-">>)
  THEN [pnl |-> parseFloat(trim(removeChars(pnlString, CurrencyAndComma))),
        originalPnlString |-> pnlString,
        shouldDisplayAsNegative |-> TRUE]
  ELSE [pnl |-> parseFloat(trim(removeChars(pnlString, CurrencyAndComma))),
        originalPnlString |-> pnlString,
        shouldDisplayAsNegative |-> FALSE]

\* the P/L of a row: the syntactic case, then the fallback when pnl is NaN
parsePnl(pnlString, buyPrice, sellPrice, quantity) ==
  LET fallback(r) ==
        IF isNaN(r.pnl)
        THEN [r EXCEPT !.pnl = pnlFromPrices(buyPrice, sellPrice, quantity)]
        ELSE r
  IN fallback(pnlSyntactic(pnlString))

\* `${Math.floor(m / 60)}h ${m % 60}m` when m >= 60, else `${m}m`
formatDuration(durationMinutes) ==
  IF durationMinutes >= 60
  THEN IntToStr(durationMinutes \div 60) \o <<"h", " ">>
         \o IntToStr(durationMinutes % 60) \o <<"m">>
  ELSE IntToStr(durationMinutes) \o <<"m">>

\* buyPrice <= sellPrice ? "Long" : "Short"
tradeDirection(buyPrice, sellPrice) ==
  IF NumLe(buyPrice, sellPrice) THEN "Long" ELSE "Short"

\* the duration of a row: the duration column when the row has it, else the
\* formatted difference of the timestamps
durationOf(fields, cols, durationMs) ==
  IF cols.durationCol >= 0 /\ cols.durationCol < Len(fields)
  THEN fields[cols.durationCol + 1]
  ELSE formatDuration(durationMs \div MsPerMinute)

\* trades.push({...}) for row i (i is the 0-based index of the line)
tradeOf(i, symbol, buyPrice, sellPrice, quantity, ts, p, duration) ==
  [id |-> i,
   instrument |-> symbol,
   entryTime |-> toISOString(ts.buyTimestamp),
   exitTime |-> toISOString(ts.sellTimestamp),
   quantity |-> quantity,
   entryPrice |-> buyPrice,
   exitPrice |-> sellPrice,
   profitLoss |-> p.pnl,
   originalPnlString |-> p.originalPnlString,
   shouldDisplayAsNegative |-> p.shouldDisplayAsNegative,
   tradeType |-> tradeDirection(buyPrice, sellPrice),
   isWinning |-> ~p.shouldDisplayAsNegative,
   duration |-> duration,
   durationMs |-> ts.sellTimestamp.t - ts.buyTimestamp.t]

\* the body of the for loop for a row that is not skipped
parseRow(fields, i, cols, clock) ==
  LET timed(buyPrice, sellPrice, quantity, ts) ==
        tradeOf(i, fields[cols.symbolCol + 1], buyPrice, sellPrice, quantity, ts,
                parsePnl(trim(fields[cols.pnlCol + 1]), buyPrice, sellPrice, quantity),
                durationOf(fields, cols, ts.sellTimestamp.t - ts.buyTimestamp.t))
  IN timed(parseFloat(fields[cols.buyPriceCol + 1]),
           parseFloat(fields[cols.sellPriceCol + 1]),
           parseFloat(fields[cols.qtyCol + 1]),
           parseTimestamps(fields[cols.buyTimeCol + 1],
                           fields[cols.sellTimeCol + 1], clock))

\* whether row i is skipped: an empty line, or fewer fields than needed
rowSkipped(line, cols) ==
  trim(line) = <<>> \/ Len(fieldsOf(line)) < minFieldCount(cols)

\* the for loop over lines[1..]: the trades pushed for rows i..lines.length-1;
\* row i reads the clock at now + tick * i
RECURSIVE parseRows(_, _, _, _, _)
parseRows(lines, i, cols, now, tick) ==
  IF i + 1 > Len(lines) THEN <<>>
  ELSE (IF rowSkipped(lines[i + 1], cols) THEN <<>>
        ELSE <<parseRow(fieldsOf(lines[i + 1]), i, cols, now + tick * i)>>)
       \o parseRows(lines, i + 1, cols, now, tick)

\* (a, b) => new Date(b.entryTime) - new Date(a.entryTime)
compareEntryTime(a, b) == DateFromISO(b.entryTime) - DateFromISO(a.entryTime)

\* insertTrade of a sort that is not stable: x goes before its equals
RECURSIVE insertTradeBeforeEquals(_, _)
insertTradeBeforeEquals(sorted, x) ==
  IF sorted = <<>> THEN <<x>>
  ELSE IF DateFromISO(Head(sorted).entryTime) - DateFromISO(x.entryTime) <= 0
       THEN <<x>> \o sorted
       ELSE <<Head(sorted)>> \o insertTradeBeforeEquals(Tail(sorted), x)

\* x inserted before the first element that the comparator puts after x
RECURSIVE insertTrade(_, _)
insertTrade(sorted, x) ==
  IF sorted = <<>> THEN <<x>>
  ELSE IF compareEntryTime(x, Head(sorted)) < 0 THEN <<x>> \o sorted
       ELSE <<Head(sorted)>> \o insertTrade(Tail(sorted), x)

\* trades.sort(compare): Array.prototype.sort is stable
RECURSIVE sortTrades(_)
sortTrades(trades) ==
  IF trades = <<>> THEN <<>>
  ELSE insertTrade(sortTrades(SubSeq(trades, 1, Len(trades) - 1)), trades[Len(trades)])

ErrNoDataRows == "CSV has no data rows."

ErrMissingColumns == "Missing required columns: "

ErrNoValidTrades == "No valid trades found in CSV"

\* sortedOrError throwing the error of the line count when no row survives
sortedOrErrorNoDataRows(trades) ==
  IF Len(trades) = 0
  THEN [error |-> ErrNoDataRows, missing |-> <<>>, trades |-> <<>>]
  ELSE [error |-> "", missing |-> <<>>, trades |-> sortTrades(trades)]

\* the end of the try block: no trade is an error, else the trades sorted
sortedOrError(trades) ==
  IF Len(trades) = 0
  THEN [error |-> ErrNoValidTrades, missing |-> <<>>, trades |-> <<>>]
  ELSE [error |-> "", missing |-> <<>>, trades |-> sortTrades(trades)]

\* the try block from the header on, keys being Object.keys(columnMap)
parseLines(lines, keys, now, tick) ==
  IF Len(missingColumns(keys)) > 0
  THEN [error |-> ErrMissingColumns, missing |-> missingColumns(keys), trades |-> <<>>]
  ELSE sortedOrError(parseRows(lines, 1, columnIndices(keys), now, tick))

\* the try block of reader.onload: the error thrown, or the sorted trades
parseCSV(text, now, tick) ==
  LET parsed(lines) ==
        IF Len(lines) < 2
        THEN [error |-> ErrNoDataRows, missing |-> <<>>, trades |-> <<>>]
        ELSE parseLines(lines, columnMap(headersOf(lines[1])), now, tick)
  IN parsed(linesOf(text))

(***************************************************************************)
(* Files.  A CSV file is kept as its name, its MIME type and its content;  *)
(* the content is the header cells and the fields of each data line, and   *)
(* FileText is the text that reader.readAsText delivers.                   *)
(***************************************************************************)
CsvFile(name, type, delim, header, rows) ==
  [name |-> name, type |-> type, delim |-> delim, header |-> header, rows |-> rows]

RECURSIVE joinAll(_, _)
joinAll(rows, delim) ==
  IF rows = <<>> THEN <<>>
  ELSE <<join(Head(rows), delim)>> \o joinAll(Tail(rows), delim)

FileText(file) ==
  join(<<join(file.header, file.delim)>> \o joinAll(file.rows, file.delim), <<"\n">>)

\* file.type === "text/csv" || file.name.toLowerCase().endsWith(".csv")
isCSV(file) ==
  file.type = "text/csv" \/ endsWith(toLowerCase(file.name), <<".","c","s","v">>)

CsvName == <<"t",".","c","s","v">>

Comma == <<",">>

Tab == <<"\t">>

\* the header cells of a broker export, for the logical columns in the order
\* of requiredColumns
ExportHeader ==
  << <<"s","y","m","b","o","l">>,
     <<"b","u","y","P","r","i","c","e">>,
     <<"s","e","l","l","P","r","i","c","e">>,
     <<"q","t","y">>,
     <<"b","o","u","g","h","t","T","i","m","e","s","t","a","m","p">>,
     <<"s","o","l","d","T","i","m","e","s","t","a","m","p">>,
     <<"p","n","l">> >>

\* an export of two trades, the later one in the second row
TwoTrades ==
  CsvFile(CsvName, "text/csv", Comma, ExportHeader,
          << <<<<"X","A","U","U","S","D">>, <<"1","9","0","0">>, <<"1","9","0","5">>, <<"1">>, <<"1","9","7","0","-","0","1","-","0","2">>, <<"1","9","7","0","-","0","1","-","0","3">>, <<"5","0","0">>>>,
             <<<<"E","U","R","U","S","D">>, <<"1","9","0","5">>, <<"1","9","0","0">>, <<"2">>, <<"1","9","7","0","-","0","1","-","0","5">>, <<"1","9","7","0","-","0","1","-","0","5">>, <<"$","(","2","2","5",".","0","0",")">>>> >>)

\* an export of one trade, tab-separated, that only its name marks as CSV
OneTrade ==
  CsvFile(<<"T",".","C","S","V">>, "", Tab, ExportHeader,
          << <<<<"X","A","U","U","S","D">>, <<"1","9","0","5">>, <<"1","9","0","0">>, <<"1">>, <<"1","9","7","0","-","0","1","-","0","3">>, <<"1","9","7","0","-","0","1","-","0","3">>, <<"a","b","c">>>> >>)

\* a file without the pnl column
NoPnlColumn ==
  CsvFile(CsvName, "text/csv", Comma, SubSeq(ExportHeader, 1, 6),
          << <<<<"X","A","U","U","S","D">>, <<"1","9","0","0">>, <<"1","9","0","5">>, <<"1">>, <<"1","9","7","0","-","0","1","-","0","2">>, <<"1","9","7","0","-","0","1","-","0","3">>>> >>)

\* a file of the header alone
HeaderOnly == CsvFile(CsvName, "text/csv", Comma, ExportHeader, <<>>)

\* a file whose only row is too short
ShortRowOnly ==
  CsvFile(CsvName, "text/csv", Comma, ExportHeader, << <<<<"X","A","U","U","S","D">>, <<"1","9","0","0">>>> >>)

\* a file that is no CSV
NotCsv == CsvFile(<<"n","o","t","e","s",".","t","x","t">>, "text/plain", Comma, <<<<"h","e","l","l","o">>>>, <<>>)

\* files that the user may choose or drop while only trades are imported
TradeFiles == {TwoTrades, OneTrade, NoPnlColumn, HeaderOnly, ShortRowOnly, NotCsv}

\* files that the user may choose or drop while images are uploaded and
\* trades exported as well
AppFiles == {OneTrade, NoPnlColumn, HeaderOnly, ShortRowOnly, NotCsv}

\* image files that the user may choose: a picture, a file of type image/png
\* whose content is no image, and a file of another type
ImageFiles ==
  { [type |-> <<"i","m","a","g","e","/","p","n","g">>, data |-> "picture"],
    [type |-> <<"i","m","a","g","e","/","p","n","g">>, data |-> "garbage"],
    [type |-> <<"t","e","x","t","/","p","l","a","i","n">>, data |-> "text"] }

(***************************************************************************)
(* State of the TradeViewer component, and of its environment: the         *)
(* FileReaders, Image decodes, preload promises, export runs and timers    *)
(* that are in flight.  null / undefined are the empty sequence, a value v *)
(* that may be null is <<v>>.                                              *)
(***************************************************************************)
VARIABLES tradeList, selectedTrade, notification, tradeImages,
          uploadingFor, uploadSlot, isExporting, imagesLoading,
          pendingImageUploads,
          csvReaders, imageReaders, imageDecodes, preloads, exportJobs,
          documents, timers, debugMultiplier

vars == <<tradeList, selectedTrade, notification, tradeImages,
          uploadingFor, uploadSlot, isExporting, imagesLoading,
          pendingImageUploads,
          csvReaders, imageReaders, imageDecodes, preloads, exportJobs,
          documents, timers, debugMultiplier>>

storeVars == <<tradeList, selectedTrade, tradeImages>>

uploadVars == <<uploadingFor, uploadSlot, imagesLoading, pendingImageUploads,
                imageReaders, imageDecodes, preloads>>

exportVars == <<isExporting, exportJobs, documents>>

\* bounds of the environment: timers pending, CSV reads in flight, image
\* uploads pending, preload runs in flight, documents exported
MaxTimers == 1

MaxCsvReads == 1

MaxUploads == 2

MaxPreloads == 1

MaxExports == 1

\* values of new Date() while a CSV is parsed: the clock at the first row, and
\* the milliseconds that pass from one row to the next
ClockValues == {MsPerDay, 3 * MsPerDay + 5 * MsPerHour + 61001}

ClockTicks == {0, 1}

Note(msg) == [msg |-> msg, n |-> 0, cols |-> <<>>]

\* a message with a number in it
NoteN(msg, n) == [msg |-> msg, n |-> n, cols |-> <<>>]

\* the image map {}: no trade id has an entry
NoImages == [id \in {} |-> <<>>]

\* [null, null, null]
EmptySlots == <<<<>>, <<>>, <<>>>>

\* the slots (0, 1 or 2) whose buttons the user presses: the first and the
\* last
UploadSlots == {0, 2}

NoNotification == Note("")

\* the useState initial values; nothing is in flight
Init ==
  /\ tradeList = <<>>
  /\ selectedTrade = <<>>
  /\ notification = NoNotification
  /\ tradeImages = NoImages
  /\ uploadingFor = <<>>
  /\ uploadSlot = <<0>>
  /\ isExporting = FALSE
  /\ imagesLoading = FALSE
  /\ pendingImageUploads = 0
  /\ csvReaders = <<>>
  /\ imageReaders = <<>>
  /\ imageDecodes = <<>>
  /\ preloads = <<>>
  /\ exportJobs = <<>>
  /\ documents = 0
  /\ timers = 0
  /\ debugMultiplier = <<>>

RemoveAt(seq, k) == SubSeq(seq, 1, k - 1) \o SubSeq(seq, k + 1, Len(seq))

\* setNotification(note); setTimeout(() => setNotification(""), ...)
NotifyBriefly(note) ==
  /\ timers < MaxTimers
  /\ notification' = note
  /\ timers' = timers + 1

\* the timeout callback () => setNotification("")
NotificationTimeout ==
  /\ timers > 0
  /\ timers' = timers - 1
  /\ notification' = NoNotification
  /\ UNCHANGED <<debugMultiplier, storeVars, uploadVars, exportVars, csvReaders>>

\* parseCSV(file): reader.readAsText(file) starts an asynchronous read
startParseCSV(file) ==
  /\ Len(csvReaders) < MaxCsvReads
  /\ csvReaders' = Append(csvReaders, file)
  /\ UNCHANGED <<notification, timers>>

\* handleCSVUpload: files is e.target.files
HandleCSVUpload(pool) ==
  \E files \in {<<>>} \cup {<<f>> : f \in pool} :
    /\ IF Len(files) > 0 /\ isCSV(files[1])
       THEN startParseCSV(files[1])
       ELSE /\ NotifyBriefly(Note("Error: Select a valid CSV file."))
            /\ UNCHANGED csvReaders
    /\ UNCHANGED <<debugMultiplier, storeVars, uploadVars, exportVars>>

\* handleFileDrop: files is e.dataTransfer.files
HandleFileDrop(pool) ==
  \E files \in {<<>>} \cup {<<f>> : f \in pool} :
    /\ IF Len(files) > 0 /\ isCSV(files[1])
       THEN startParseCSV(files[1])
       ELSE /\ NotifyBriefly(Note("Error: Drop a valid CSV file."))
            /\ UNCHANGED csvReaders
    /\ UNCHANGED <<debugMultiplier, storeVars, uploadVars, exportVars>>

ImportedNote(n) == NoteN("Imported trades from CSV", n)

\* `Error: ${err.message}`
ErrorNote(r) ==
  [msg |-> IF r.error = ErrNoDataRows THEN "Error: CSV has no data rows."
           ELSE IF r.error = ErrMissingColumns THEN "Error: Missing required columns: "
           ELSE "Error: No valid trades found in CSV",
   n |-> 0, cols |-> r.missing]

\* parseCSV of the text of each file of TradeFiles, tabulated
TradeFileParses ==
  { [file |-> f, now |-> now, tick |-> tick, result |-> parseCSV(FileText(f), now, tick)] :
      f \in TradeFiles, now \in ClockValues, tick \in ClockTicks }

\* the try block of reader.onload run on ev.target.result, the text of file
parseResult(file, now, tick) ==
  IF file \in TradeFiles
  THEN (CHOOSE p \in TradeFileParses :
          p.file = file /\ p.now = now /\ p.tick = tick).result
  ELSE parseCSV(FileText(file), now, tick)

\* commitTrades keeping the trades of the list
commitTradesAppending(trades) ==
  /\ tradeList' = tradeList \o trades
  /\ selectedTrade' = <<(tradeList \o trades)[1]>>
  /\ NotifyBriefly(ImportedNote(Len(trades)))

\* the end of the try block: setTradeList(trades); setSelectedTrade(trades[0]);
\* setNotification(`Imported ${trades.length} trades from CSV`)
commitTrades(trades) ==
  /\ tradeList' = trades
  /\ selectedTrade' = <<trades[1]>>
  /\ NotifyBriefly(ImportedNote(Len(trades)))

\* rejectImport emptying the list
rejectImportClearing(r) ==
  /\ NotifyBriefly(ErrorNote(r))
  /\ tradeList' = <<>>
  /\ selectedTrade' = <<>>

\* the catch block: setNotification(`Error: ${err.message}`)
rejectImport(r) ==
  /\ NotifyBriefly(ErrorNote(r))
  /\ UNCHANGED <<tradeList, selectedTrade>>

\* reader.onload of parseCSV for the k-th read in flight: the text is parsed,
\* and the result committed or the error shown
CsvReaderOnLoad ==
  \E k \in 1..Len(csvReaders), now \in ClockValues, tick \in ClockTicks :
    \E r \in {parseResult(csvReaders[k], now, tick)} :
      /\ csvReaders' = RemoveAt(csvReaders, k)
      /\ IF r.error = "" THEN commitTrades(r.trades) ELSE rejectImport(r)
      /\ UNCHANGED <<debugMultiplier, tradeImages, uploadVars, exportVars>>

\* onClick of a trade of the list: setSelectedTrade(trade)
SelectTrade ==
  \E t \in 1..Len(tradeList) :
    /\ selectedTrade' = <<tradeList[t]>>
    /\ UNCHANGED <<debugMultiplier, tradeList, tradeImages, notification, timers, csvReaders,
                   uploadVars, exportVars>>

\* Object.values(tradeImages).flatMap(...).filter(Boolean): the images of the
\* map, by ascending trade id and slot
RECURSIVE imagesOf(_, _)
imagesOf(images, ids) ==
  IF ids = {} THEN <<>>
  ELSE LET id == MinOf(ids)
       IN SelectSeq(images[id], LAMBDA slot : slot # <<>>) \o imagesOf(images, ids \ {id})

imagesToLoad(images) == imagesOf(images, DOMAIN images)

\* the gallery of the detail pane: tradeImages[selectedTrade.id], when the
\* selected trade has an entry
shownImages(selected, images) ==
  IF selected # <<>> /\ selected[1].id \in DOMAIN images
  THEN images[selected[1].id]
  ELSE EmptySlots

\* img.onload fires for image data that decodes, img.onerror for data that
\* does not
Decodes(data) == data = "picture"

\* the effect on [tradeImages], run after the render that follows a
\* setTradeImages with a new object: preloadImages up to its await.  next is
\* the new map, note and loading are the notification and the flag that the
\* handler set.
PreloadEffect(next, note, loading) ==
  IF Len(imagesToLoad(next)) = 0
  THEN /\ notification' = note
       /\ imagesLoading' = loading
       /\ UNCHANGED preloads
  ELSE /\ Len(preloads) < MaxPreloads
       /\ imagesLoading' = TRUE
       /\ notification' = NoteN("Loading images...", Len(imagesToLoad(next)))
       /\ preloads' = Append(preloads,
                             [ok |-> \A j \in 1..Len(imagesToLoad(next)) :
                                       Decodes(imagesToLoad(next)[j][1])])

\* startImageUpload(selectedTrade.id, slot), from the buttons of the detail
\* pane of the selected trade
StartImageUpload ==
  \E slot \in UploadSlots :
    /\ selectedTrade # <<>>
    /\ uploadingFor' = <<selectedTrade[1].id>>
    /\ uploadSlot' = <<slot>>
    /\ UNCHANGED <<debugMultiplier, storeVars, notification, timers, csvReaders, imagesLoading,
                   pendingImageUploads, imageReaders, imageDecodes, preloads,
                   exportVars>>

\* handleImageUpload: files is e.target.files of the hidden input; the reader
\* keeps the uploadingFor and uploadSlot of the render that the handler
\* belongs to
HandleImageUpload(pool) ==
  \E files \in {<<>>} \cup {<<f>> : f \in pool} :
    /\ IF uploadingFor = <<>> \/ uploadSlot = <<>> \/ Len(files) = 0
       THEN UNCHANGED <<notification, timers, imagesLoading, pendingImageUploads,
                        imageReaders>>
       ELSE IF ~startsWith(files[1].type, <<"i","m","a","g","e","/">>)
       THEN /\ NotifyBriefly(Note("Only image files are accepted"))
            /\ UNCHANGED <<imagesLoading, pendingImageUploads, imageReaders>>
       ELSE /\ pendingImageUploads < MaxUploads
            /\ imagesLoading' = TRUE
            /\ pendingImageUploads' = pendingImageUploads + 1
            /\ imageReaders' = Append(imageReaders,
                                      [uploadingFor |-> uploadingFor[1],
                                       uploadSlot |-> uploadSlot[1],
                                       result |-> files[1].data])
            /\ UNCHANGED <<notification, timers>>
    /\ UNCHANGED <<debugMultiplier, storeVars, uploadingFor, uploadSlot, imageDecodes, preloads,
                   csvReaders, exportVars>>

\* setTradeImages(prev => ...) of reader.onload: the image put in its slot
withImage(prev, id, slot, data) ==
  LET tradeImagesArray == IF id \in DOMAIN prev THEN prev[id] ELSE EmptySlots
  IN (id :> [tradeImagesArray EXCEPT ![slot + 1] = <<data>>]) @@ prev

\* reader.onload of handleImageUpload for the k-th read in flight
ImageReaderOnLoad ==
  \E k \in 1..Len(imageReaders) :
    LET r == imageReaders[k]
    IN /\ imageReaders' = RemoveAt(imageReaders, k)
       /\ imageDecodes' = Append(imageDecodes, r.result)
       /\ tradeImages' = withImage(tradeImages, r.uploadingFor, r.uploadSlot, r.result)
       /\ timers < MaxTimers
       /\ timers' = timers + 1
       /\ uploadingFor' = <<>>
       /\ uploadSlot' = <<>>
       /\ PreloadEffect(withImage(tradeImages, r.uploadingFor, r.uploadSlot, r.result),
                        NoteN("Image added successfully", r.uploadSlot + 1),
                        imagesLoading)
       /\ UNCHANGED <<debugMultiplier, tradeList, selectedTrade, pendingImageUploads, csvReaders,
                      exportVars>>

\* UploadSettled that leaves the counter as it is
UploadSettledKeepingCount ==
  /\ pendingImageUploads' = pendingImageUploads
  /\ imagesLoading' = IF pendingImageUploads - 1 <= 0 THEN FALSE ELSE imagesLoading

\* setPendingImageUploads(prev => { newCount = prev - 1; if (newCount <= 0)
\* setImagesLoading(false); return newCount })
UploadSettled ==
  /\ pendingImageUploads' = pendingImageUploads - 1
  /\ imagesLoading' = IF pendingImageUploads - 1 <= 0 THEN FALSE ELSE imagesLoading

\* reader.onerror of handleImageUpload for the k-th read in flight
ImageReaderOnError ==
  \E k \in 1..Len(imageReaders) :
    /\ imageReaders' = RemoveAt(imageReaders, k)
    /\ NotifyBriefly(Note("Error reading image file"))
    /\ uploadingFor' = <<>>
    /\ uploadSlot' = <<>>
    /\ UploadSettled
    /\ UNCHANGED <<debugMultiplier, storeVars, imageDecodes, preloads, csvReaders, exportVars>>

\* img.onload of the Image that reader.onload made, for the k-th decode in
\* flight
ImgOnLoad ==
  \E k \in 1..Len(imageDecodes) :
    /\ Decodes(imageDecodes[k])
    /\ imageDecodes' = RemoveAt(imageDecodes, k)
    /\ UploadSettled
    /\ UNCHANGED <<debugMultiplier, storeVars, notification, timers, uploadingFor, uploadSlot,
                   imageReaders, preloads, csvReaders, exportVars>>

\* the Image that reader.onload made fails to decode: it has no onerror
\* handler, nothing runs
ImgOnError ==
  \E k \in 1..Len(imageDecodes) :
    /\ ~Decodes(imageDecodes[k])
    /\ imageDecodes' = RemoveAt(imageDecodes, k)
    /\ UNCHANGED <<debugMultiplier, storeVars, notification, timers, uploadingFor, uploadSlot,
                   imagesLoading, pendingImageUploads, imageReaders, preloads,
                   csvReaders, exportVars>>

\* withoutImage that keeps the entry of a trade whose slots are all empty
withoutImageKeepingEntry(prev, id, slot) ==
  IF id \notin DOMAIN prev THEN prev
  ELSE (id :> [prev[id] EXCEPT ![slot + 1] = <<>>]) @@ prev

\* setTradeImages(prev => ...) of removeImage: prev itself when the trade has
\* no entry
withoutImage(prev, id, slot) ==
  IF id \notin DOMAIN prev THEN prev
  ELSE LET updatedImages == [prev[id] EXCEPT ![slot + 1] = <<>>]
       IN IF \A j \in 1..Len(updatedImages) : updatedImages[j] = <<>>
          THEN [x \in DOMAIN prev \ {id} |-> prev[x]]
          ELSE (id :> updatedImages) @@ prev

\* removeImage(selectedTrade.id, slot), from the button shown on an image of
\* the selected trade
RemoveImage ==
  \E slot \in UploadSlots :
    /\ selectedTrade # <<>>
    /\ selectedTrade[1].id \in DOMAIN tradeImages
    /\ tradeImages[selectedTrade[1].id][slot + 1] # <<>>
    /\ tradeImages' = withoutImage(tradeImages, selectedTrade[1].id, slot)
    /\ PreloadEffect(withoutImage(tradeImages, selectedTrade[1].id, slot),
                     notification, imagesLoading)
    /\ UNCHANGED <<debugMultiplier, tradeList, selectedTrade, timers, uploadingFor, uploadSlot,
                   pendingImageUploads, imageReaders, imageDecodes, csvReaders,
                   exportVars>>

\* preloadImages after await Promise.all(promises), for the k-th run in
\* flight: every image has loaded, or the first one has failed
PreloadSettled ==
  \E k \in 1..Len(preloads) :
    /\ preloads' = RemoveAt(preloads, k)
    /\ imagesLoading' = FALSE
    /\ NotifyBriefly(IF preloads[k].ok THEN Note("All images loaded.")
                     ELSE Note("Warning: Some images failed to load."))
    /\ UNCHANGED <<debugMultiplier, storeVars, uploadingFor, uploadSlot, pendingImageUploads,
                   imageReaders, imageDecodes, csvReaders, exportVars>>

\* ExportDisabled without the count of pending uploads
ExportDisabledByFlags == isExporting \/ imagesLoading

\* the export button: disabled={isExporting || imagesLoading ||
\* pendingImageUploads > 0}
ExportDisabled == isExporting \/ imagesLoading \/ pendingImageUploads > 0

\* exportLoads that reads the entry of the map at the position idx of the trade
\* in the list, not at the id of the trade
RECURSIVE exportLoadsByPosition(_, _, _)
exportLoadsByPosition(trades, images, idx) ==
  IF idx > Len(trades) THEN <<>>
  ELSE (IF idx \in DOMAIN images
        THEN [j \in 1..Len(SelectSeq(images[idx], LAMBDA slot : slot # <<>>)) |->
                [trade |-> idx,
                 src |-> SelectSeq(images[idx], LAMBDA slot : slot # <<>>)[j][1]]]
        ELSE <<>>)
       \o exportLoadsByPosition(trades, images, idx + 1)

\* the images that handleExportPDF awaits, in order: for each trade of the
\* list that has images, its images; each with the number idx + 1 of the trade
RECURSIVE exportLoads(_, _, _)
exportLoads(trades, images, idx) ==
  IF idx > Len(trades) THEN <<>>
  ELSE (IF trades[idx].id \in DOMAIN images
        THEN [j \in 1..Len(SelectSeq(images[trades[idx].id], LAMBDA slot : slot # <<>>)) |->
                [trade |-> idx,
                 src |-> SelectSeq(images[trades[idx].id], LAMBDA slot : slot # <<>>)[j][1]]]
        ELSE <<>>)
       \o exportLoads(trades, images, idx + 1)

\* the end of the try block of handleExportPDF, and finally
ExportCompleted ==
  /\ documents' = documents + 1
  /\ NotifyBriefly(Note("PDF export completed!"))
  /\ isExporting' = FALSE

\* onClick of the export button: handleExportPDF up to its first await, or
\* to its end when no trade has an image.  A click on the disabled button
\* runs nothing.
HandleExportPDF ==
  /\ IF ExportDisabled \/ Len(tradeList) = 0 \/ isExporting
     THEN UNCHANGED <<notification, timers, exportVars>>
     ELSE /\ documents + Len(exportJobs) < MaxExports
          /\ IF exportLoads(tradeList, tradeImages, 1) = <<>>
             THEN ExportCompleted /\ UNCHANGED exportJobs
             ELSE /\ isExporting' = TRUE
                  /\ notification' = NoteN("Exporting trade...",
                                           exportLoads(tradeList, tradeImages, 1)[1].trade)
                  /\ exportJobs' = Append(exportJobs,
                                          [loads |-> exportLoads(tradeList, tradeImages, 1),
                                           trades |-> Len(tradeList)])
                  /\ UNCHANGED <<documents, timers>>
  /\ UNCHANGED <<debugMultiplier, storeVars, uploadVars, csvReaders>>

\* handleExportPDF after await loadImage(imageData), for the k-th run in
\* flight: the image is added when it has loaded, and the loop goes on to the
\* next await or to the end
ExportImageLoaded ==
  \E k \in 1..Len(exportJobs) :
    LET rest == Tail(exportJobs[k].loads)
    IN /\ IF rest = <<>>
          THEN /\ exportJobs' = RemoveAt(exportJobs, k)
               /\ ExportCompleted
          ELSE /\ exportJobs' = [exportJobs EXCEPT ![k].loads = rest]
               /\ notification' =
                    (IF rest[1].trade # exportJobs[k].loads[1].trade
                     THEN NoteN("Exporting trade...", rest[1].trade)
                     ELSE notification)
               /\ UNCHANGED <<isExporting, documents, timers>>
       /\ UNCHANGED <<debugMultiplier, storeVars, uploadVars, csvReaders>>

\* ExportThrows without the finally block
ExportThrowsKeepingFlag ==
  \E k \in 1..Len(exportJobs) :
    /\ exportJobs' = RemoveAt(exportJobs, k)
    /\ NotifyBriefly(Note("Error exporting PDF. Please try again."))
    /\ UNCHANGED <<debugMultiplier, isExporting, documents, storeVars, uploadVars,
                   csvReaders>>

\* handleExportPDF after await loadImage(imageData), for the k-th run in
\* flight, when a jsPDF call throws: the catch block, and finally
ExportThrows ==
  \E k \in 1..Len(exportJobs) :
    /\ exportJobs' = RemoveAt(exportJobs, k)
    /\ NotifyBriefly(Note("Error exporting PDF. Please try again."))
    /\ isExporting' = FALSE
    /\ UNCHANGED <<debugMultiplier, documents, storeVars, uploadVars, csvReaders>>

\* texts that the number input of the debug panel may hold (e.target.value
\* is "" for an input that is no number)
MultiplierTexts == { <<>>, <<"0">>, <<"2">>, <<"-","1",".","5">> }

\* onChange of the multiplier input:
\* window.XAUUSD_DEBUG_MULTIPLIER = parseFloat(e.target.value)
SetDebugMultiplier ==
  \E text \in MultiplierTexts :
    /\ debugMultiplier' = <<parseFloat(text)>>
    /\ UNCHANGED <<storeVars, notification, timers, csvReaders, uploadVars,
                   exportVars>>

\* if (window.XAUUSD_DEBUG_MULTIPLIER): undefined, NaN and 0 are falsy
Truthy(multiplier) ==
  multiplier # <<>> /\ ~isNaN(multiplier[1]) /\ multiplier[1].m # 0

\* recalculated for every instrument, XAUUSD or not
recalculatedEveryInstrument(trade, multiplier) ==
  [trade EXCEPT !.profitLoss =
     NumMul(NumMul(NumMul(NumSub(trade.exitPrice, trade.entryPrice),
                          IF trade.tradeType = "Long" THEN Num(1, 0) ELSE Num(0 - 1, 0)),
                   multiplier),
            trade.quantity)]

\* recalculated with mult = 1 whatever the tradeType
recalculatedAsLong(trade, multiplier) ==
  IF includes(toUpperCase(trade.instrument), <<"X","A","U","U","S","D">>)
  THEN [trade EXCEPT !.profitLoss =
          NumMul(NumMul(NumSub(trade.exitPrice, trade.entryPrice), multiplier),
                 trade.quantity)]
  ELSE trade

\* the callback of tradeList.map: {...trade, profitLoss: newPL} with
\* newPL = priceDiff * mult * window.XAUUSD_DEBUG_MULTIPLIER * trade.quantity
\* for a trade of XAUUSD, the trade itself otherwise
recalculated(trade, multiplier) ==
  IF includes(toUpperCase(trade.instrument), <<"X","A","U","U","S","D">>)
  THEN LET priceDiff == NumSub(trade.exitPrice, trade.entryPrice)
           mult == IF trade.tradeType = "Long" THEN Num(1, 0) ELSE Num(0 - 1, 0)
       IN [trade EXCEPT !.profitLoss =
             NumMul(NumMul(NumMul(priceDiff, mult), multiplier), trade.quantity)]
  ELSE trade

\* tradeList.map(trade => ...)
RECURSIVE updatedTrades(_, _)
updatedTrades(trades, multiplier) ==
  IF trades = <<>> THEN <<>>
  ELSE <<recalculated(Head(trades), multiplier)>>
       \o updatedTrades(Tail(trades), multiplier)

\* refreshedSelection that keeps the record selected before
refreshedSelectionStale(trades) == selectedTrade

\* if (selectedTrade) { updated = updatedTrades.find(t => t.id ===
\* selectedTrade.id); if (updated) setSelectedTrade(updated) }
refreshedSelection(trades) ==
  IF selectedTrade # <<>> /\ \E t \in 1..Len(trades) : trades[t].id = selectedTrade[1].id
  THEN <<trades[MinOf({t \in 1..Len(trades) : trades[t].id = selectedTrade[1].id})]>>
  ELSE selectedTrade

\* onClick of Apply in the debug panel
ApplyDebugMultiplier ==
  /\ IF Truthy(debugMultiplier)
     THEN /\ tradeList' = updatedTrades(tradeList, debugMultiplier[1])
          /\ selectedTrade' = refreshedSelection(updatedTrades(tradeList, debugMultiplier[1]))
     ELSE UNCHANGED <<tradeList, selectedTrade>>
  /\ UNCHANGED <<debugMultiplier, tradeImages, notification, timers, csvReaders,
                 uploadVars, exportVars>>

(***************************************************************************)
(* Input files of the normalizer                                           *)
(***************************************************************************)
\* the fields of one row, for the logical columns in the order of
\* requiredColumns.  Only the timestamp fields are text that new Date
\* accepts, so that a field read from another column is never taken for a date.
GoodFields ==
  << <<"X","A","U","U","S","D">>,
     <<"$","1","9","0","0">>,
     <<"$","1","9","0","5">>,
     <<"q","1">>,
     <<"1","9","7","0","-","0","1","-","0","2">>,
     <<"1","9","7","0","-","0","1","-","0","3">>,
     <<"$","5","0","0">> >>

Column(cell, field) == [cell |-> cell, field |-> field]

\* columns that a file may hold besides the required ones: the optional
\* duration column, an empty cell, a cell that is an array index, a cell that
\* holds no column name, cells that repeat another cell up to letter case, and
\* a cell that holds two column names
ExtraColumns ==
  { Column(<<"d","u","r","a","t","i","o","n">>, <<"~","4","5","m">>),
    Column(<<>>, <<"x">>),
    Column(<<"7">>, <<"x">>),
    Column(<<"n","o","t","e">>, <<"x">>),
    Column(<<"S","Y","M","B","O","L">>, <<"D","U","P">>),
    Column(<<"N","o","t","e">>, <<"y">>),
    Column(<<"b","u","y","p","r","i","c","e","_","s","e","l","l","p","r","i","c","e">>, <<"x">>) }

Orderings ==
  { <<1, 2, 3, 4, 5, 6, 7>>, <<7, 6, 5, 4, 3, 2, 1>>,
    <<4, 5, 6, 7, 1, 2, 3>>, <<2, 1, 3, 4, 5, 7, 6>> }

\* sets of required columns that a file lacks
Drops == { {}, {1}, {7}, {3}, {4, 7} }

Casings == {"asis", "upper"}

WithCase(cell, casing) == IF casing = "upper" THEN toUpperCase(cell) ELSE cell

\* the columns of a file: the required columns of order but those of drop,
\* with the columns of extras (zero, one or two of them) put in at positions
HeaderColumns(order, drop, extras, position) ==
  LET kept == SelectSeq(order, LAMBDA c : c \notin drop)
      base == [k \in 1..Len(kept) |-> Column(ExportHeader[kept[k]], GoodFields[kept[k]])]
      p    == IF position <= Len(base) THEN position ELSE Len(base)
  IN SubSeq(base, 1, p) \o extras \o SubSeq(base, p + 1, Len(base))

HeaderFile(order, drop, extras, position, casing, nrows) ==
  LET cols == HeaderColumns(order, drop, extras, position)
  IN CsvFile(CsvName, "text/csv", Comma,
             [k \in 1..Len(cols) |-> WithCase(cols[k].cell, casing)],
             [r \in 1..nrows |-> [k \in 1..Len(cols) |-> cols[k].field]])

ExtraChoices ==
  {<<>>} \cup {<<x>> : x \in ExtraColumns}
    \cup {<<Column(<<"n","o","t","e">>, <<"x">>), Column(<<"N","o","t","e">>, <<"y">>)>>}

\* files for the header resolution: every header, alone and with one good
\* data row
HeaderFiles ==
  { HeaderFile(o, d, x, p, c, n) :
      o \in Orderings, d \in Drops, x \in ExtraChoices, p \in {0, 2, 7},
      c \in Casings, n \in {0, 1} }

\* data rows: a good row, a row with the same entry time, a later row whose
\* exit lies before its entry, rows whose entry or exit timestamp does not
\* parse, a row with too few fields, an empty line and a line of blanks
RowPool ==
  { <<<<"X","A","U","U","S","D">>, <<"1","9","0","0">>, <<"1","9","0","5">>, <<"1">>, <<"1","9","7","0","-","0","1","-","0","2">>, <<"1","9","7","0","-","0","1","-","0","3">>, <<"5","0","0">>>>,
    <<<<"X","A","U","U","S","D">>, <<"1","9","0","5">>, <<"1","9","0","0">>, <<"2">>, <<"1","9","7","0","-","0","1","-","0","2">>, <<"1","9","7","0","-","0","1","-","0","2">>, <<"-","1","0","0","0">>>>,
    <<<<"E","U","R","U","S","D">>, <<"1",".","1">>, <<"1",".","2">>, <<"0",".","5">>, <<"1","9","7","0","-","0","1","-","0","5">>, <<"1","9","7","0","-","0","1","-","0","4">>, <<"$","(","2","2","5",".","0","0",")">>>>,
    <<<<"X","A","U","U","S","D">>, <<"1","9","0","0">>, <<"1","9","0","5">>, <<"1">>, <<"y","e","s","t","e","r","d","a","y">>, <<"1","9","7","0","-","0","1","-","0","3">>, <<"5","0","0">>>>,
    <<<<"X","A","U","U","S","D">>, <<"1","9","0","0">>, <<"1","9","0","5">>, <<"1">>, <<"1","9","7","0","-","0","1","-","0","2">>, <<>>, <<"5","0","0">>>>,
    <<<<"X","A","U","U","S","D">>, <<"1","9","0","0">>>>,
    <<>>,
    << <<" ", " ">> >> }

MaxRows == 2

\* files for the row loop: the export header, with or without the duration
\* column, over every sequence of at most MaxRows rows of RowPool
RowFiles ==
  { CsvFile(CsvName, "text/csv", Comma, ExportHeader \o extra, rows) :
      extra \in {<<>>, <<<<"d","u","r","a","t","i","o","n">>>>},
      rows \in UNION { [1..n -> RowPool] : n \in 0..MaxRows } }

\* texts of the P/L field
PnlTexts ==
  { <<"$","(","2","2","5",".","0","0",")">>, <<"$","(","-","5",")">>, <<"$","(","5",")">>, <<"$","(",")">>,
    <<"$","(","a","b","c",")">>, <<"$","("," ","7"," ",")">>, <<"(","2","2","5",".","0","0",")">>,
    <<"(","$","2","2","5",".","0","0",")">>, <<"(","-","5",")">>, <<"(","£","3",".","5",")">>, <<"(",")">>,
    <<"(","a","b","c",")">>, <<"-","5">>, <<"-","$","5",".","5","0">>, <<"-","a","b","c">>,
    <<"-">>, <<"5","0","0">>, <<"$","1","2",".","5">>, <<"€","0">>,
    <<"a","b","c">>, <<" ","$","(","9",".","1",")"," ">>, <<"$","(","1",",","5",")">>, <<>>,
    <<"1","2","a","b","c">>, <<".","5">>, <<"(",".",")">> }

\* texts of the buyPrice and sellPrice fields, and of the qty field
PriceTexts ==
  { <<<<"1","9","0","0">>, <<"1","9","0","5">>>>, <<<<"1","9","0","5">>, <<"1","9","0","0">>>>, <<<<"1","9","0","0">>, <<"1","9","0","0">>>>,
    <<<<"a","b","c">>, <<"1","9","0","5">>>>, <<<<"1","9","0","0",".","5">>, <<"1","8","9","9",".","2","5">>>> }

QtyTexts == { <<"1">>, <<"0",".","5">>, <<"x">> }

\* files for the P/L field: one row under the export header
PnlFiles ==
  { CsvFile(CsvName, "text/csv", Comma, ExportHeader,
            << <<<<"X","A","U","U","S","D">>, pr[1], pr[2], q, <<"1","9","7","0","-","0","1","-","0","2">>, <<"1","9","7","0","-","0","1","-","0","3">>, pnl>> >>) :
      pr \in PriceTexts, q \in QtyTexts, pnl \in PnlTexts }

(***************************************************************************)
(* Specifications of the normalizer: a FileReader is reading one file of   *)
(* the pool, and its onload handler parses it                              *)
(***************************************************************************)
InitReading(pool) ==
  /\ tradeList = <<>>
  /\ selectedTrade = <<>>
  /\ notification = NoNotification
  /\ tradeImages = NoImages
  /\ uploadingFor = <<>>
  /\ uploadSlot = <<0>>
  /\ isExporting = FALSE
  /\ imagesLoading = FALSE
  /\ pendingImageUploads = 0
  /\ csvReaders \in {<<f>> : f \in pool}
  /\ imageReaders = <<>>
  /\ imageDecodes = <<>>
  /\ preloads = <<>>
  /\ exportJobs = <<>>
  /\ documents = 0
  /\ timers = 0
  /\ debugMultiplier = <<>>

NextParse == CsvReaderOnLoad \/ NotificationTimeout

SpecHeader == InitReading(HeaderFiles) /\ [][NextParse]_vars

SpecRows == InitReading(RowFiles) /\ [][NextParse]_vars

SpecPnl == InitReading(PnlFiles) /\ [][NextParse]_vars

(***************************************************************************)
(* Properties of the normalizer.  A step Loads(k) is reader.onload of the  *)
(* k-th read in flight; the file read is csvReaders[k] before the step,    *)
(* and the outcome is tradeList, selectedTrade and notification after it.  *)
(***************************************************************************)
Loads(k) == k \in 1..Len(csvReaders) /\ csvReaders' = RemoveAt(csvReaders, k)

FileLines(file) == linesOf(FileText(file))

FileHeaders(file) == headersOf(FileLines(file)[1])

\* some header cell contains the column name, case-insensitively
MatchedBy(headers, col) ==
  \E h \in 1..Len(headers) : includes(toLowerCase(headers[h]), col)

Unmatched(headers) == SelectSeq(requiredColumns, LAMBDA col : ~MatchedBy(headers, col))

MsgImported == "Imported trades from CSV"

MsgNoDataRows == "Error: CSV has no data rows."

MsgMissingColumns == "Error: Missing required columns: "

MsgNoValidTrades == "Error: No valid trades found in CSV"

\* C3: after every successful import the trade collection is ordered by
\* entryTime non-increasing, and two trades with the same entryTime stand in
\* the order of their rows in the CSV (id is the row's line index).
C3_SortedStable ==
  \A a \in 1..Len(tradeList), b \in 1..Len(tradeList) :
    a < b =>
      /\ DateFromISO(tradeList[a].entryTime) >= DateFromISO(tradeList[b].entryTime)
      /\ tradeList[a].entryTime = tradeList[b].entryTime
           => tradeList[a].id < tradeList[b].id

\* an import has committed two rows with the same entryTime
C3_Witness ==
  /\ Len(tradeList) = 2
  /\ tradeList[1].entryTime = tradeList[2].entryTime
  /\ tradeList[1].id = 1 /\ tradeList[2].id = 2

\* an import has put a later row before an earlier one
C3_WitnessReordered ==
  /\ Len(tradeList) = 2
  /\ tradeList[1].entryTime # tradeList[2].entryTime
  /\ tradeList[1].id = 2 /\ tradeList[2].id = 1

\* the index that the normalizer uses for col is the position of a header
\* cell that contains col
ResolvesColumn(headers, col) ==
  LET idx == getColumnIndex(columnMap(headers), col)
  IN /\ idx >= 0 /\ idx < Len(headers)
     /\ includes(toLowerCase(headers[idx + 1]), col)

\* C4: header resolution is order-independent and case-insensitive: when a
\* file is parsed whose header row matches each required column by some cell
\* (any order, any casing, repeated or empty cells included), the index used
\* to read a column's field is the position of a header cell whose lower-cased
\* text contains the column name.
C4_HeaderResolution ==
  [][\A k \in 1..Len(csvReaders) :
       (/\ Loads(k)
        /\ Len(FileLines(csvReaders[k])) >= 2
        /\ Unmatched(FileHeaders(csvReaders[k])) = <<>>)
       => \A c \in 1..Len(requiredColumns) :
            ResolvesColumn(FileHeaders(csvReaders[k]), requiredColumns[c])]_vars

\* C5 as stated: an import fails with the missing-columns error exactly when
\* some required column has no header cell containing its name, and the error
\* names exactly the unmatched columns.
C5_MissingColumnsExactly ==
  [][\A k \in 1..Len(csvReaders) :
       Loads(k) =>
         /\ (notification'.msg = MsgMissingColumns)
              <=> (Unmatched(FileHeaders(csvReaders[k])) # <<>>)
         /\ notification'.msg = MsgMissingColumns
              => notification'.cols = Unmatched(FileHeaders(csvReaders[k]))]_vars

\* C5 amended: an import of an input of at least two lines fails with the
\* missing-columns error exactly when some required column has no header cell
\* containing its name case-insensitively, the error names exactly the
\* unmatched columns, and the absence of the duration column never causes it;
\* an input of fewer than two lines fails with the no-data-rows error whatever
\* its header.
C5_MissingColumns ==
  [][\A k \in 1..Len(csvReaders) :
       Loads(k) =>
         IF Len(FileLines(csvReaders[k])) >= 2
         THEN /\ (notification'.msg = MsgMissingColumns)
                   <=> (Unmatched(FileHeaders(csvReaders[k])) # <<>>)
              /\ notification'.msg = MsgMissingColumns
                   => notification'.cols = Unmatched(FileHeaders(csvReaders[k]))
         ELSE notification'.msg = MsgNoDataRows]_vars

\* the error that names qty and pnl as missing is shown
C5_Witness ==
  /\ notification.msg = MsgMissingColumns
  /\ notification.cols = <<requiredColumns[4], requiredColumns[7]>>

\* the indices that the normalizer resolves for the header of file
FileCols(file) == columnIndices(columnMap(FileHeaders(file)))

\* the line of a data row as it stands in the file
RowLine(file, r) == join(file.rows[r], file.delim)

BlankRow(file, r) == trim(RowLine(file, r)) = <<>>

ShortRow(file, r) == Len(fieldsOf(RowLine(file, r))) < minFieldCount(FileCols(file))

\* a header that matches every required column, and no data row that
\* survives: each is blank or has too few fields
NoSurvivingRow(file) ==
  /\ Unmatched(file.header) = <<>>
  /\ \A r \in 1..Len(file.rows) : BlankRow(file, r) \/ ShortRow(file, r)

\* C6 as stated: importing a CSV with a valid header but no surviving data
\* row (header plus zero data rows, or every data row blank or with too few
\* fields) fails with the no-valid-trades error and no other.
C6_NoValidTradesAlways ==
  [][\A k \in 1..Len(csvReaders) :
       (Loads(k) /\ NoSurvivingRow(csvReaders[k]))
       => notification'.msg = MsgNoValidTrades]_vars

\* C6 amended: importing a CSV with a valid header and no surviving data row
\* fails with the no-valid-trades error and no other when some data row is
\* not blank (every such row having too few fields); with zero data rows, or
\* with blank data rows only, it fails with the no-data-rows error.  In both
\* cases nothing is imported.
C6_NoValidTrades ==
  [][\A k \in 1..Len(csvReaders) :
       (Loads(k) /\ NoSurvivingRow(csvReaders[k]))
       => /\ notification'.msg =
               (IF \E r \in 1..Len(csvReaders[k].rows) : ~BlankRow(csvReaders[k], r)
                THEN MsgNoValidTrades ELSE MsgNoDataRows)
          /\ tradeList' = tradeList]_vars

\* the no-valid-trades error is shown
C6_Witness == notification.msg = MsgNoValidTrades

\* the trades of id i, i being the line index of a data row
TradesOfRow(trades, i) == {t \in 1..Len(trades) : trades[t].id = i}

\* the timestamp texts of data row r do not both parse
BadTimestamp(file, r) ==
  LET fields == fieldsOf(RowLine(file, r))
      cols   == FileCols(file)
  IN \/ ~DateParse(fields[cols.buyTimeCol + 1]).valid
     \/ ~DateParse(fields[cols.sellTimeCol + 1]).valid

\* the values that new Date() may have when row i is parsed
ClockAtRow(i) == {now + tick * i : now \in ClockValues, tick \in ClockTicks}

\* C8: a row with an unparsable entry or exit timestamp never aborts the
\* batch and is not dropped: the import succeeds, the row yields a trade whose
\* entryTime is the current time and whose exitTime is entryTime + 1 hour,
\* and every other row that is neither blank nor too short yields its trade.
C8_TimestampFallback ==
  [][\A k \in 1..Len(csvReaders) :
       (/\ Loads(k)
        /\ Unmatched(csvReaders[k].header) = <<>>
        /\ \E r \in 1..Len(csvReaders[k].rows) :
             /\ ~BlankRow(csvReaders[k], r) /\ ~ShortRow(csvReaders[k], r)
             /\ BadTimestamp(csvReaders[k], r))
       => /\ notification'.msg = MsgImported
          /\ \A r \in 1..Len(csvReaders[k].rows) :
               IF BlankRow(csvReaders[k], r) \/ ShortRow(csvReaders[k], r)
               THEN TradesOfRow(tradeList', r) = {}
               ELSE /\ Cardinality(TradesOfRow(tradeList', r)) = 1
                    /\ BadTimestamp(csvReaders[k], r)
                         => \A t \in TradesOfRow(tradeList', r) :
                              /\ DateFromISO(tradeList'[t].entryTime) \in ClockAtRow(r)
                              /\ DateFromISO(tradeList'[t].exitTime)
                                   = DateFromISO(tradeList'[t].entryTime) + MsPerHour]_vars

\* an import has committed a row parsed at a time of the clock that no row
\* names, next to a row with its own timestamps
C8_Witness ==
  /\ Len(tradeList) = 2
  /\ \E t \in 1..2 :
       /\ DateFromISO(tradeList[t].entryTime) % MsPerDay # 0
       /\ tradeList[t].durationMs = MsPerHour
  /\ \E t \in 1..2 : tradeList[t].durationMs = MsPerDay

\* the P/L field that the normalizer reads from data row r
PnlField(file, r) == fieldsOf(RowLine(file, r))[FileCols(file).pnlCol + 1]

DollarParens(p) == startsWith(p, <<"$", "(">>) /\ endsWith(p, <<")">>)

Parens(p) == ~DollarParens(p) /\ startsWith(p, <<"(">>) /\ endsWith(p, <<")">>)

\* the x of "$(x)" or "(x)"
Inner(p) == IF DollarParens(p) THEN SubSeq(p, 3, Len(p) - 1) ELSE SubSeq(p, 2, Len(p) - 1)

Zero == Num(0, 0)

\* C9: a P/L field of the form $(x) or (x) is negative: for every x that
\* parses as a number, whatever its sign, the trade has
\* shouldDisplayAsNegative = true, profitLoss <= 0 and |profitLoss| = |x|;
\* "$(225.00)" gives profitLoss = -225 and originalPnlString = "-$225.00".
C9_ParenthesisedNegative ==
  [][\A k \in 1..Len(csvReaders) :
       (Loads(k) /\ notification'.msg = MsgImported)
       => \A r \in 1..Len(csvReaders[k].rows) : \A t \in TradesOfRow(tradeList', r) :
            LET p == PnlField(csvReaders[k], r)
            IN /\ ((DollarParens(p) \/ Parens(p)) /\ ~isNaN(parseFloat(Inner(p))))
                    => /\ tradeList'[t].shouldDisplayAsNegative
                       /\ NumLe(tradeList'[t].profitLoss, Zero)
                       /\ NumAbs(tradeList'[t].profitLoss) = NumAbs(parseFloat(Inner(p)))
               /\ p = <<"$","(","2","2","5",".","0","0",")">>
                    => /\ tradeList'[t].profitLoss = Num(0 - 225, 0)
                       /\ tradeList'[t].originalPnlString = <<"-","$","2","2","5",".","0","0">>]_vars

\* the cleaned P/L string that parseFloat reads in each syntactic case
CleanedPnl(p) ==
  IF DollarParens(p) THEN Inner(p)
  ELSE trim(removeChars(IF Parens(p) THEN Inner(p) ELSE p, CurrencyAndComma))

\* C10: when the cleaned P/L string does not parse as a number, profitLoss is
\* direction * (exitPrice - entryPrice) * quantity * 100 with direction = -1
\* if entryPrice > exitPrice else 1, and originalPnlString and
\* shouldDisplayAsNegative are those of the syntactic case; entry 1900, exit
\* 1905, quantity 1 give 500.
C10_PnlFallback ==
  [][\A k \in 1..Len(csvReaders) :
       (Loads(k) /\ notification'.msg = MsgImported)
       => \A r \in 1..Len(csvReaders[k].rows) : \A t \in TradesOfRow(tradeList', r) :
            LET p     == PnlField(csvReaders[k], r)
                trade == tradeList'[t]
                sign  == IF NumGt(trade.entryPrice, trade.exitPrice)
                         THEN Num(0 - 1, 0) ELSE Num(1, 0)
            IN isNaN(parseFloat(CleanedPnl(p)))
               => /\ trade.profitLoss =
                       NumMul(NumMul(NumMul(sign,
                                            NumSub(trade.exitPrice, trade.entryPrice)),
                                     trade.quantity),
                              Num(100, 0))
                  /\ (trade.entryPrice = Num(1900, 0) /\ trade.exitPrice = Num(1905, 0)
                        /\ trade.quantity = Num(1, 0))
                       => trade.profitLoss = Num(500, 0)
                  /\ trade.shouldDisplayAsNegative
                       = (DollarParens(p) \/ Parens(p) \/ startsWith(p, <<"-">>))
                  /\ trade.originalPnlString =
                       (IF DollarParens(p) THEN <<"-", "$">> \o Inner(p)
                        ELSE IF Parens(p)
                        THEN <<"-", "$">> \o removeChars(Inner(p), CurrencySymbols)
                        ELSE p)]_vars

\* an import has committed the trade of entry 1900, exit 1905, quantity 1
\* with the P/L 500 recomputed for a P/L field that holds no number
C10_Witness ==
  \E t \in 1..Len(tradeList) :
    /\ tradeList[t].originalPnlString = <<"a", "b", "c">>
    /\ tradeList[t].entryPrice = Num(1900, 0)
    /\ tradeList[t].exitPrice = Num(1905, 0)
    /\ tradeList[t].quantity = Num(1, 0)
    /\ tradeList[t].profitLoss = Num(500, 0)

\* an import has committed a short trade with a recomputed P/L shown negative
C10_WitnessShort ==
  \E t \in 1..Len(tradeList) :
    /\ tradeList[t].originalPnlString = <<"-", "$", "a", "b", "c">>
    /\ tradeList[t].shouldDisplayAsNegative
    /\ tradeList[t].tradeType = "Short"
    /\ NumGt(tradeList[t].profitLoss, Zero)

\* C11: tradeType and the direction of the P/L fallback use the same
\* comparison: for the entry and exit price of every imported trade (equal
\* prices and prices that are not numbers included) the fallback direction is
\* 1 exactly when tradeType is Long and -1 exactly when tradeType is Short.
C11_SameComparison ==
  \A t \in 1..Len(tradeList) :
    /\ (direction(tradeList[t].entryPrice, tradeList[t].exitPrice) = Num(1, 0))
         <=> (tradeList[t].tradeType = "Long")
    /\ (direction(tradeList[t].entryPrice, tradeList[t].exitPrice) = Num(0 - 1, 0))
         <=> (tradeList[t].tradeType = "Short")

(***************************************************************************)
(* Properties of the image map                                             *)
(***************************************************************************)
\* the entry of every trade in the map has exactly 3 slots, not all empty
ImageSlotsWellFormed(images) ==
  \A id \in DOMAIN images :
    /\ Len(images[id]) = 3
    /\ \E j \in 1..3 : images[id][j] # <<>>

\* the step empties slot j (from 1) of the entry of trade id
Detaches(id, j) ==
  /\ id \in DOMAIN tradeImages
  /\ tradeImages[id][j] # <<>>
  /\ id \in DOMAIN tradeImages' => tradeImages'[id][j] = <<>>

\* ids of trades that an import can produce
TradeIds == 1..(MaxRows + 1)

\* C12: in every reachable state each entry of the image map is an array of
\* exactly 3 slots with at least one non-empty slot; a step that detaches the
\* last non-empty slot of a trade removes the trade's key from the map (and a
\* step that detaches another slot keeps the key and the other slots); and
\* detaching from a trade that has no entry leaves the map unchanged.
C12_ImageSlots ==
  /\ [](/\ ImageSlotsWellFormed(tradeImages)
        /\ \A id \in TradeIds \ DOMAIN tradeImages : \A slot \in 0..2 :
             withoutImage(tradeImages, id, slot) = tradeImages)
  /\ [][\A id \in DOMAIN tradeImages : \A j \in 1..3 :
          Detaches(id, j)
          => /\ (id \notin DOMAIN tradeImages')
                  <=> (\A i \in (1..3) \ {j} : tradeImages[id][i] = <<>>)
             /\ id \in DOMAIN tradeImages'
                  => tradeImages'[id] = [tradeImages[id] EXCEPT ![j] = <<>>]
             /\ \A other \in DOMAIN tradeImages \ {id} :
                  /\ other \in DOMAIN tradeImages'
                  /\ tradeImages'[other] = tradeImages[other]]_vars

\* an image was attached (its decode is still pending) and then detached, and
\* the map has no entry left
C12_Witness == tradeImages = NoImages /\ imageDecodes # <<>>

\* two slots of a trade hold an image
C12_WitnessTwoSlots ==
  \E id \in DOMAIN tradeImages :
    Cardinality({j \in 1..3 : tradeImages[id][j] # <<>>}) = 2

\* the step starts an upload: a FileReader more is reading an image file
UploadStarts == Len(imageReaders') = Len(imageReaders) + 1

\* the step is reader.onerror of an upload: a read has ended and no image
\* was handed to a decode
ReadFails ==
  /\ Len(imageReaders') = Len(imageReaders) - 1
  /\ imageDecodes' = imageDecodes

\* C17: an image file that cannot be read does not corrupt existing state:
\* the start of the upload leaves the trade collection, the selection and the
\* image map as they are and adds 1 to the in-flight counter, and the
\* read-error callback leaves them as they are and takes 1 from the counter,
\* so that the upload leaves all four as they were before it started.
C17_ReadErrorKeepsState ==
  [][/\ UploadStarts
          => /\ UNCHANGED <<tradeList, selectedTrade, tradeImages>>
             /\ pendingImageUploads' = pendingImageUploads + 1
     /\ ReadFails
          => /\ UNCHANGED <<tradeList, selectedTrade, tradeImages>>
             /\ pendingImageUploads' = pendingImageUploads - 1]_vars

\* the read of an image file has failed in a session that holds a trade
\* with an image, and no upload is in flight any more
C17_Witness ==
  /\ notification = Note("Error reading image file")
  /\ Len(tradeList) > 0
  /\ tradeImages # NoImages
  /\ pendingImageUploads = 0
  /\ imageReaders = <<>>

\* C18: the images-loading flag reflects the in-flight counter: in every
\* reachable state, under any interleaving of upload starts, file-read
\* completions, decode completions and preload completions, imagesLoading is
\* true whenever pendingImageUploads is greater than zero.
C18_FlagReflectsCounter == pendingImageUploads > 0 => imagesLoading

\* C19: every started upload takes 1 from the in-flight counter exactly once
\* on every outcome (read and decode succeed, read fails, read succeeds and
\* decode fails): the counter is never negative, it is the number of uploads
\* whose final callback is still to come, and so it is 0, and the export
\* enabled as far as the counter goes, once every started upload has
\* delivered its final callback.
C19_CounterSettles ==
  /\ pendingImageUploads >= 0
  /\ pendingImageUploads = Len(imageReaders) + Len(imageDecodes)

(***************************************************************************)
(* The component: every handler and callback, over the files of AppFiles   *)
(* and ImageFiles                                                          *)
(***************************************************************************)
Next ==
  \/ HandleCSVUpload(AppFiles)
  \/ HandleFileDrop(AppFiles)
  \/ CsvReaderOnLoad
  \/ NotificationTimeout
  \/ SelectTrade
  \/ StartImageUpload
  \/ HandleImageUpload(ImageFiles)
  \/ ImageReaderOnLoad
  \/ ImageReaderOnError
  \/ ImgOnLoad
  \/ ImgOnError
  \/ RemoveImage
  \/ PreloadSettled
  \/ HandleExportPDF
  \/ ExportImageLoaded
  \/ ExportThrows

Spec == Init /\ [][Next]_vars

\* the import of trades alone, over the files of TradeFiles
NextImport ==
  \/ HandleCSVUpload(TradeFiles)
  \/ HandleFileDrop(TradeFiles)
  \/ CsvReaderOnLoad
  \/ NotificationTimeout
  \/ SelectTrade

SpecImport == Init /\ [][NextImport]_vars

\* an export of two trades of XAUUSD in other letter cases: a short one, and
\* one whose buyPrice is no number
GoldTrades ==
  CsvFile(CsvName, "text/csv", Comma, ExportHeader,
          << <<<<"x","a","u","u","s","d",".","f">>, <<"1","9","0","5">>, <<"1","9","0","0">>, <<"2">>, <<"1","9","7","0","-","0","1","-","0","2">>, <<"1","9","7","0","-","0","1","-","0","3">>, <<"-","1","0","0","0">>>>,
             <<<<"X","a","u","U","S","D">>, <<"a","b","c">>, <<"1","9","0","5">>, <<"0",".","5">>, <<"1","9","7","0","-","0","1","-","0","4">>, <<"1","9","7","0","-","0","1","-","0","5">>, <<"$","(","5",")">>>> >>)

\* files that the user may choose while the debug panel is used
DebugFiles == {TwoTrades, GoldTrades, HeaderOnly}

\* the state of a session in which OneTrade was imported and a picture
\* attached to slot 0 of its trade, once every callback has run
SessionWithImage ==
  /\ tradeList = parseResult(OneTrade, MsPerDay, 0).trades
  /\ selectedTrade = <<tradeList[1]>>
  /\ notification = NoNotification
  /\ tradeImages = (tradeList[1].id :> <<<<"picture">>, <<>>, <<>>>>)
  /\ uploadingFor = <<>>
  /\ uploadSlot = <<>>
  /\ isExporting = FALSE
  /\ imagesLoading = FALSE
  /\ pendingImageUploads = 0
  /\ csvReaders = <<>>
  /\ imageReaders = <<>>
  /\ imageDecodes = <<>>
  /\ preloads = <<>>
  /\ exportJobs = <<>>
  /\ documents = 0
  /\ timers = 0
  /\ debugMultiplier = <<>>

\* the debug panel is opened in a new session or in a session with an image
InitDebug == Init \/ SessionWithImage

\* the component with its debug panel: trades are imported and selected, and
\* the P/L multiplier set and applied
NextDebug ==
  \/ HandleCSVUpload(DebugFiles)
  \/ CsvReaderOnLoad
  \/ NotificationTimeout
  \/ SelectTrade
  \/ SetDebugMultiplier
  \/ ApplyDebugMultiplier

SpecDebug == InitDebug /\ [][NextDebug]_vars

\* the state of a session in which TwoTrades was imported and a picture
\* attached to slot 0, or to slots 0 and 2, of one of its trades, once every
\* callback has run
SessionWithTwoTrades ==
  /\ tradeList = parseResult(TwoTrades, MsPerDay, 0).trades
  /\ selectedTrade \in {<<tradeList[t]>> : t \in 1..Len(tradeList)}
  /\ notification = NoNotification
  /\ tradeImages \in {(selectedTrade[1].id :> <<<<"picture">>, <<>>, last>>) :
                         last \in {<<>>, <<"picture">>}}
  /\ uploadingFor = <<>>
  /\ uploadSlot = <<>>
  /\ isExporting = FALSE
  /\ imagesLoading = FALSE
  /\ pendingImageUploads = 0
  /\ csvReaders = <<>>
  /\ imageReaders = <<>>
  /\ imageDecodes = <<>>
  /\ preloads = <<>>
  /\ exportJobs = <<>>
  /\ documents = 0
  /\ timers = 0
  /\ debugMultiplier = <<>>

\* files that the user may choose for a second import
ReimportFiles == {OneTrade, GoldTrades, HeaderOnly}

\* the component after a first import: trades are imported again, selected
\* and exported
NextReimport ==
  \/ HandleCSVUpload(ReimportFiles)
  \/ HandleFileDrop(ReimportFiles)
  \/ CsvReaderOnLoad
  \/ NotificationTimeout
  \/ SelectTrade
  \/ HandleExportPDF
  \/ ExportImageLoaded
  \/ ExportThrows

SpecReimport == SessionWithTwoTrades /\ [][NextReimport]_vars

(***************************************************************************)
(* Properties of the component                                             *)
(***************************************************************************)
\* C1: export is a no-op while an image operation is pending or an export is
\* in flight: in a state where pendingImageUploads > 0, the images-loading
\* flag is set or an export has not finished, no step (an export request
\* among them) starts an export run, and a document is only produced by the
\* run in flight coming to its end; no two runs are ever in flight.
C1_ExportNoOp ==
  [][/\ (pendingImageUploads > 0 \/ imagesLoading \/ isExporting)
          => /\ Len(exportJobs') <= Len(exportJobs)
             /\ documents' # documents => Len(exportJobs') < Len(exportJobs)
     /\ Len(exportJobs') <= 1]_vars

\* trades are imported and only the count of pending uploads bars an export
C1_Witness ==
  /\ Len(tradeList) > 0
  /\ pendingImageUploads > 0
  /\ ~imagesLoading
  /\ ~isExporting
  /\ exportJobs = <<>>
  /\ documents = 0

\* the trades of a sequence
Range(seq) == {seq[j] : j \in 1..Len(seq)}

\* C2: a successful import replaces the whole trade collection by exactly the
\* trades parsed from the new CSV, and selects the first element of the new
\* collection, a trade whose entryTime is the maximum of the batch.
C2_ImportReplaces ==
  [][\A k \in 1..Len(csvReaders) :
       (Loads(k) /\ notification'.msg = MsgImported)
       => /\ \E now \in ClockValues, tick \in ClockTicks :
               LET parsed == parseRows(FileLines(csvReaders[k]), 1,
                                       FileCols(csvReaders[k]), now, tick)
               IN Len(tradeList') = Len(parsed) /\ Range(tradeList') = Range(parsed)
          /\ selectedTrade' = <<tradeList'[1]>>
          /\ \A t \in 1..Len(tradeList') :
               DateFromISO(tradeList'[1].entryTime) >= DateFromISO(tradeList'[t].entryTime)]_vars

\* the two trades of a file are the collection, and the later one, of the
\* second row, is selected
C2_Witness ==
  /\ Len(tradeList) = 2
  /\ selectedTrade = <<tradeList[1]>>
  /\ tradeList[1].id = 2 /\ tradeList[2].id = 1

\* the file has fewer than two lines, a required column unmatched, or no row
\* that survives
FailsImport(file) ==
  \/ Len(FileLines(file)) < 2
  \/ Unmatched(FileHeaders(file)) # <<>>
  \/ \A r \in 1..Len(file.rows) : BlankRow(file, r) \/ ShortRow(file, r)

\* the files of TradeFiles whose import fails
FailingFiles == {f \in TradeFiles : isCSV(f) /\ FailsImport(f)}

\* C7: a failed import (empty input, missing required columns, or zero valid
\* rows) aborts as a whole: the trade collection, the selected trade and the
\* image map are what they were, and only the notification changes.
C7_FailedImportAborts ==
  [][\A k \in 1..Len(csvReaders) :
       (Loads(k) /\ csvReaders[k] \in FailingFiles)
       => /\ UNCHANGED <<tradeList, selectedTrade, tradeImages>>
          /\ UNCHANGED <<uploadVars, exportVars>>
          /\ notification'.msg \in {MsgNoDataRows, MsgMissingColumns, MsgNoValidTrades}]_vars

\* the missing-columns error is shown over a collection with a selected trade
\* that has an image
C7_Witness ==
  /\ notification.msg = MsgMissingColumns
  /\ Len(tradeList) > 0
  /\ selectedTrade # <<>>
  /\ selectedTrade[1].id \in DOMAIN tradeImages


(***************************************************************************)
(* Properties of the P/L override of the debug panel                       *)
(***************************************************************************)
\* the instrument contains XAUUSD, case-insensitively
MatchesGold(trade) ==
  includes(toLowerCase(trade.instrument), <<"x","a","u","u","s","d">>)

\* a multiplier is set, and it is a number other than 0
Usable(multiplier) ==
  multiplier # <<>> /\ multiplier[1] # NaN /\ multiplier[1] # Num(0, 0)

\* (exitPrice - entryPrice) * (1 if tradeType is Long else -1) * multiplier
\* * quantity
OverriddenPnl(trade, multiplier) ==
  NumMul(NumMul(NumMul(NumSub(trade.exitPrice, trade.entryPrice),
                       Num(IF trade.tradeType = "Long" THEN 1 ELSE 0 - 1, 0)),
                multiplier),
         trade.quantity)

\* C13: the P/L override sets, for every trade whose instrument contains
\* XAUUSD case-insensitively, profitLoss = (exitPrice - entryPrice) * (1 if
\* tradeType is Long else -1) * multiplier * quantity, whatever the value was
\* and however it was obtained; with no usable multiplier (unset, zero or
\* not a number) the override changes nothing.
C13_OverridePnl ==
  [][ApplyDebugMultiplier
     => IF Usable(debugMultiplier)
        THEN /\ Len(tradeList') = Len(tradeList)
             /\ \A t \in 1..Len(tradeList) :
                  MatchesGold(tradeList[t])
                  => tradeList'[t].profitLoss
                       = OverriddenPnl(tradeList[t], debugMultiplier[1])
        ELSE UNCHANGED <<tradeList, selectedTrade, tradeImages>>]_vars

\* the short trade imported with the P/L -1000 has the P/L
\* (1900 - 1905) * -1 * 2 * 2 = 20 of the multiplier 2
C13_Witness ==
  /\ debugMultiplier = <<Num(2, 0)>>
  /\ \E t \in 1..Len(tradeList) :
       /\ tradeList[t].originalPnlString = <<"-","1","0","0","0">>
       /\ tradeList[t].tradeType = "Short"
       /\ tradeList[t].profitLoss = Num(20, 0)

\* the trade imported with a P/L field that holds no number, whose P/L was
\* recomputed by the import, has the P/L of the multiplier -1.5
C13_WitnessFallback ==
  /\ debugMultiplier = <<Num(0 - 15, 1)>>
  /\ \E t \in 1..Len(tradeList) :
       /\ tradeList[t].originalPnlString = <<"a","b","c">>
       /\ tradeList[t].profitLoss = Num(0 - 75, 1)

\* C14: the P/L override changes nothing but the profitLoss of the matching
\* trades: the other trades are unchanged, every other field of a matching
\* trade is unchanged, the length and order of the collection are unchanged,
\* the image map is unchanged and the id of the selected trade is unchanged.
C14_OverrideFrame ==
  [][ApplyDebugMultiplier
     => /\ Len(tradeList') = Len(tradeList)
        /\ \A t \in 1..Len(tradeList) :
             /\ [tradeList'[t] EXCEPT !.profitLoss = tradeList[t].profitLoss]
                  = tradeList[t]
             /\ ~MatchesGold(tradeList[t]) => tradeList'[t] = tradeList[t]
        /\ tradeImages' = tradeImages
        /\ (selectedTrade' = <<>>) <=> (selectedTrade = <<>>)
        /\ selectedTrade # <<>> => selectedTrade'[1].id = selectedTrade[1].id]_vars

\* the override has been applied to a list that holds a trade of XAUUSD and
\* a trade of another instrument, while a trade has an image
C14_Witness ==
  /\ debugMultiplier = <<Num(2, 0)>>
  /\ tradeImages # NoImages
  /\ selectedTrade # <<>>
  /\ \E t \in 1..Len(tradeList) :
       /\ tradeList[t].originalPnlString = <<"5","0","0">>
       /\ tradeList[t].profitLoss = Num(10, 0)
  /\ \E t \in 1..Len(tradeList) :
       /\ ~MatchesGold(tradeList[t])
       /\ tradeList[t].profitLoss = Num(0 - 225, 0)

\* C15: in every reachable state the selection is empty or is the record of
\* exactly one trade of the collection, identical to the collection's record
\* of the same id (its profitLoss after an override included); and selecting
\* a trade changes neither the collection nor the image map.
C15_SelectionInCollection ==
  /\ [](selectedTrade # <<>>
        => /\ Cardinality({t \in 1..Len(tradeList) :
                             tradeList[t].id = selectedTrade[1].id}) = 1
           /\ \E t \in 1..Len(tradeList) : tradeList[t] = selectedTrade[1])
  /\ [][SelectTrade => UNCHANGED <<tradeList, tradeImages>>]_vars

\* the selected trade is one whose P/L the override has replaced
C15_Witness ==
  /\ selectedTrade # <<>>
  /\ selectedTrade[1].originalPnlString = <<"-","1","0","0","0">>
  /\ selectedTrade[1].profitLoss = Num(20, 0)


(***************************************************************************)
(* Liveness of the export.  The timer of a notification fires; and the     *)
(* promise that handleExportPDF awaits settles (img.onload and img.onerror *)
(* both resolve it), after which the loop goes on or a call throws.  The   *)
(* continuation waits in the model only while MaxTimers timers are pending,*)
(* hence strong fairness.  The session is one that holds images to export. *)
(***************************************************************************)
SpecLive ==
  /\ SpecReimport
  /\ WF_vars(NotificationTimeout)
  /\ SF_vars(ExportImageLoaded \/ ExportThrows)

\* C16: every export that starts releases the busy flag, whether it completes
\* or fails midway (an embedded image that fails to load included): a state
\* with isExporting set leads to a state with isExporting cleared, no export
\* run left and a trade list that is not empty, in which handleExportPDF
\* accepts a new request.
C16_ExportReleasesFlag ==
  isExporting ~> (~isExporting /\ exportJobs = <<>> /\ Len(tradeList) > 0)

\* an export is running: it awaits the load of an image
C16_Witness ==
  /\ isExporting
  /\ Len(exportJobs) = 1
  /\ Len(exportJobs[1].loads) >= 1

\* an export has failed midway and the flag is cleared
C16_WitnessFailed ==
  /\ ~isExporting
  /\ exportJobs = <<>>
  /\ documents = 0
  /\ notification = Note("Error exporting PDF. Please try again.")

\* an export awaits the load of an image that does not decode
C16_AwaitsBrokenImage ==
  \E k \in 1..Len(exportJobs) : \E j \in 1..Len(exportJobs[k].loads) :
    ~Decodes(exportJobs[k].loads[j].src)


(***************************************************************************)
(* The image map across imports                                            *)
(***************************************************************************)
\* the step starts an export run that awaits images
ExportStarts == Len(exportJobs') = Len(exportJobs) + 1

\* the step exports a document without awaiting any image
ExportsAtOnce == documents' = documents + 1 /\ Len(exportJobs') = Len(exportJobs)

\* C20: a successful import leaves the image map unchanged, entries keyed by
\* ids of the previous import included: the gallery of the trade selected by
\* the import shows the entry of its row-derived id, an export embeds with
\* each trade of the current list exactly the images of the entry of its id,
\* and an entry whose key is the id of no trade of the list stays in the map
\* and is not exported.
C20_ImportKeepsImages ==
  [][/\ \A k \in 1..Len(csvReaders) :
          (Loads(k) /\ notification'.msg = MsgImported)
          => /\ tradeImages' = tradeImages
             /\ shownImages(selectedTrade', tradeImages')
                  = (IF tradeList'[1].id \in DOMAIN tradeImages
                     THEN tradeImages[tradeList'[1].id] ELSE EmptySlots)
     /\ ExportStarts
          => LET loads == exportJobs'[Len(exportJobs')].loads
             IN /\ \A j \in 1..Len(loads) :
                     /\ tradeList[loads[j].trade].id \in DOMAIN tradeImages
                     /\ \E slot \in 1..3 :
                          tradeImages[tradeList[loads[j].trade].id][slot]
                            = <<loads[j].src>>
                /\ \A t \in 1..Len(tradeList) :
                     tradeList[t].id \in DOMAIN tradeImages
                     => \E j \in 1..Len(loads) : loads[j].trade = t
     /\ ExportsAtOnce
          => \A t \in 1..Len(tradeList) : tradeList[t].id \notin DOMAIN tradeImages]_vars

\* after a second import the entry of key 1, attached to the first row of
\* TwoTrades, belongs to the first row of GoldTrades, and an export is
\* embedding it
C20_Witness ==
  /\ 1 \in DOMAIN tradeImages
  /\ Len(exportJobs) = 1
  /\ \E t \in 1..Len(tradeList) :
       /\ tradeList[t].id = 1
       /\ tradeList[t].instrument = <<"x","a","u","u","s","d",".","f">>
       /\ exportJobs[1].loads[1].trade = t

\* after a second import the map holds an entry whose key is the id of no
\* trade of the list, and a document has been exported
C20_WitnessOrphan ==
  /\ \E k \in DOMAIN tradeImages : \A t \in 1..Len(tradeList) : tradeList[t].id # k
  /\ Len(tradeList) > 0
  /\ documents = 1

====
